---- MODULE Spec2Model ----
(***************************************************************************)
(* Model of packages/.vitepress/plugins/markdownTransform.ts: the          *)
(* MarkdownTransform plugin's transform hook for a function's index.md,    *)
(* its fenced-TypeScript block rewriting (replaceAsync and the async       *)
(* replacer callback) and the header splice that follows it.               *)
(*                                                                         *)
(* Text is a sequence of tokens.  A token is one character ("\n", " ")     *)
(* or an indivisible run of characters that none of the program's          *)
(* patterns can split ("<fence>", "ts", "## Usage", "const a", ...).           *)
(***************************************************************************)
EXTENDS Integers, Sequences, FiniteSets, TLC

NL == "\n"
SP == " "
\* the three backticks that open and close a fenced block
Fence == "<fence>"

(* ------------------------------------------------------------------ *)
(* Bounds of the model                                                 *)
(* ------------------------------------------------------------------ *)
MaxBlocks == 2
MaxPass == 2

(* ------------------------------------------------------------------ *)
(* Generic text helpers                                                *)
(* ------------------------------------------------------------------ *)
RECURSIVE Flatten(_)
Flatten(ss) == IF ss = <<>> THEN <<>> ELSE Head(ss) \o Flatten(Tail(ss))

RECURSIVE TrimStart(_)
TrimStart(s) ==
  IF s # <<>> /\ Head(s) \in {NL, SP} THEN TrimStart(Tail(s)) ELSE s

RECURSIVE TrimEnd(_)
TrimEnd(s) ==
  IF s # <<>> /\ s[Len(s)] \in {NL, SP} THEN TrimEnd(SubSeq(s, 1, Len(s) - 1)) ELSE s

\* String.prototype.trim
Trim(s) == TrimEnd(TrimStart(s))

\* String.prototype.toLowerCase, on the tokens of the alphabet that have capitals in
\* a fence annotation
ToLowerCase(s) == [i \in 1..Len(s) |-> IF s[i] = "Twoslash" THEN "twoslash" ELSE s[i]]

\* snippet.replace(/\n+/g, '\n')
RECURSIVE CollapseNewlines(_)
CollapseNewlines(s) ==
  IF s = <<>> THEN <<>>
  ELSE IF Head(s) = NL /\ Len(s) > 1 /\ s[2] = NL THEN CollapseNewlines(Tail(s))
  ELSE <<Head(s)>> \o CollapseNewlines(Tail(s))

(* ------------------------------------------------------------------ *)
(* The fence pattern /\n<fence>ts( [^\n]+)?\n(.+?)\n<fence>\n/gs               *)
(* ------------------------------------------------------------------ *)
NoMatch == [start |-> 0, end |-> 0, meta |-> <<>>, snippet |-> <<>>]

\* the least member of a set of indices, 0 for the empty set: a pattern is matched
\* at the first place it can be
First(hits) == IF hits = {} THEN 0 ELSE CHOOSE k \in hits : \A j \in hits : k <= j

\* [^\n]+ is greedy and must be followed by \n: it runs to the next newline (to
\* the end of the text when there is none)
NextNewline(s, i) ==
  LET k == First({j \in i..Len(s) : s[j] = NL}) IN IF k = 0 THEN Len(s) + 1 ELSE k

\* (.+?)\n<fence>\n is lazy: the first k >= from with \n<fence>\n at k, 0 when
\* there is none
FindClose(s, from) ==
  First({k \in from..(Len(s) - 2) : s[k] = NL /\ s[k + 1] = Fence /\ s[k + 2] = NL})

\* the match of the pattern that starts exactly at index i, NoMatch when there is none
MatchAt(s, i) ==
  IF ~(i + 3 <= Len(s) /\ s[i] = NL /\ s[i + 1] = Fence /\ s[i + 2] = "ts") THEN NoMatch
  ELSE IF s[i + 3] = NL THEN
    \* the optional group ( [^\n]+)? does not take part: meta is undefined
    LET c == FindClose(s, i + 5)
    IN IF c = 0 THEN NoMatch
       ELSE [start |-> i, end |-> c + 2, meta |-> <<>>,
             snippet |-> SubSeq(s, i + 4, c - 1)]
  ELSE IF s[i + 3] = SP THEN
    LET e == NextNewline(s, i + 4)
        c == IF e > i + 4 /\ e <= Len(s) THEN FindClose(s, e + 2) ELSE 0
    IN IF c = 0 THEN NoMatch
       ELSE [start |-> i, end |-> c + 2, meta |-> SubSeq(s, i + 3, e - 1),
             snippet |-> SubSeq(s, e + 1, c - 1)]
  ELSE NoMatch

\* the first match of the pattern at or after index i, NoMatch when there is none
NextMatch(s, i) ==
  LET k == First({j \in i..Len(s) : MatchAt(s, j).start # 0})
  IN IF k = 0 THEN NoMatch ELSE MatchAt(s, k)

\* the successive non-overlapping matches of a global pattern, leftmost first
RECURSIVE MatchAll(_, _)
MatchAll(s, i) ==
  LET m == NextMatch(s, i)
  IN IF m.start = 0 THEN <<>> ELSE <<m>> \o MatchAll(s, m.end + 1)

(* ------------------------------------------------------------------ *)
(* The libraries the replacer callback calls                           *)
(* ------------------------------------------------------------------ *)
\* a type annotation, which exists in TypeScript only
TypeTokens == {": number"}
\* the token that ends an expression statement
StatementEnd == {" = 1"}
\* a twoslash query line (two slashes, then a caret and a question mark)
Annotation == "// ^?"
\* text no parser accepts
SyntaxError == "@#!"

\* twoslasher(snippet, 'ts').code: the snippet without its twoslash notations; a
\* query takes a line of its own, which goes with it
RECURSIVE twoslasher(_)
twoslasher(s) ==
  IF s = <<>> THEN <<>>
  ELSE IF Head(s) = Annotation THEN
    twoslasher(IF Len(s) > 1 /\ s[2] = NL THEN Tail(Tail(s)) ELSE Tail(s))
  ELSE IF Head(s) = NL /\ Len(s) > 1 /\ s[2] = Annotation THEN twoslasher(Tail(Tail(s)))
  ELSE <<Head(s)>> \o twoslasher(Tail(s))

\* runs of blank lines: prettier keeps one blank line of a run
RECURSIVE OneBlankLine(_)
OneBlankLine(s) ==
  IF s = <<>> THEN <<>>
  ELSE IF Len(s) > 2 /\ s[1] = NL /\ s[2] = NL /\ s[3] = NL THEN OneBlankLine(Tail(s))
  ELSE <<Head(s)>> \o OneBlankLine(Tail(s))

\* prettier's format(code, { semi: false, singleQuote: true, parser: 'typescript' }):
\* the promise rejects on text the parser does not accept; it resolves to the code
\* without statement terminators, without blank lines at either end, one blank line
\* kept of each run, closed by a newline
format(s) ==
  IF \E i \in 1..Len(s) : s[i] = SyntaxError THEN [ok |-> FALSE, text |-> <<>>]
  ELSE [ok |-> TRUE,
        text |-> Trim(OneBlankLine(SelectSeq(s, LAMBDA t : t # ";"))) \o <<NL>>]

\* every statement is printed with its terminator
RECURSIVE Terminate(_)
Terminate(s) ==
  IF s = <<>> THEN <<>>
  ELSE IF Head(s) \in StatementEnd /\ (Len(s) = 1 \/ s[2] # ";")
    THEN <<Head(s), ";">> \o Terminate(Tail(s))
  ELSE <<Head(s)>> \o Terminate(Tail(s))

\* a transpiler that terminates the statements and leaves the type annotations in
transpileKeepingTypes(s) ==
  LET body == TrimEnd(CollapseNewlines(Terminate(s)))
  IN IF body = <<>> THEN <<>> ELSE body \o <<NL>>

\* ts.transpileModule(code, { compilerOptions: { target: 99 } }).outputText: the
\* type annotations erased, the statements terminated, the blank lines dropped,
\* the comments kept, closed by a newline.  It reports syntax errors as
\* diagnostics and does not throw.
transpileModule(s) ==
  LET erased == SelectSeq(s, LAMBDA t : t \notin TypeTokens)
      body == TrimEnd(CollapseNewlines(Terminate(erased)))
  IN IF body = <<>> THEN <<>> ELSE body \o <<NL>>

(* ------------------------------------------------------------------ *)
(* The replacer callback of transform, lines 53-83, between its awaits  *)
(* ------------------------------------------------------------------ *)
\* meta.trim().toLowerCase() === 'twoslash'
IsTwoslash(meta) == ToLowerCase(Trim(meta)) = <<"twoslash">>

\* lines 54-57: the snippet the rest of the callback works on
Snippet(meta, snippet) == IF IsTwoslash(meta) THEN twoslasher(snippet) ELSE snippet

\* line 58: the argument of the first format call
FormatTSInput(snippet) == CollapseNewlines(snippet)

\* the template with no space between ts and the annotation
CodeToggleNoSpace(meta, snippet, formattedJS) ==
  <<NL, "<CodeToggle>", NL, "<div class=code-block-ts>", NL, NL, Fence, "ts">>
    \o meta \o <<NL>> \o snippet
    \o <<NL, Fence, NL, NL, "</div>", NL, "<div class=code-block-js>", NL, NL,
         Fence, "js", NL>>
    \o formattedJS
    \o <<NL, Fence, NL, NL, "</div>", NL, "</CodeToggle>", NL>>

\* lines 66-82: the template literal the callback returns for a diverging block
CodeToggle(meta, snippet, formattedJS) ==
  <<NL, "<CodeToggle>", NL, "<div class=code-block-ts>", NL, NL, Fence, "ts", SP>>
    \o meta \o <<NL>> \o snippet
    \o <<NL, Fence, NL, NL, "</div>", NL, "<div class=code-block-js>", NL, NL,
         Fence, "js", NL>>
    \o formattedJS
    \o <<NL, Fence, NL, NL, "</div>", NL, "</CodeToggle>", NL>>

\* the comparison of line 64 inverted
ReplacementInverted(whole, meta, snippet, formattedTS, formattedJS) ==
  IF formattedJS # formattedTS THEN whole
  ELSE <<NL, "<CodeToggle>", NL>> \o snippet \o <<NL>> \o formattedJS \o <<NL>>

\* lines 64-82: what the callback returns; whole is the matched text
Replacement(whole, meta, snippet, formattedTS, formattedJS) ==
  IF formattedJS = formattedTS THEN whole ELSE CodeToggle(meta, snippet, formattedJS)

(* ------------------------------------------------------------------ *)
(* replaceAsync, lines 207-214                                          *)
(* ------------------------------------------------------------------ *)
\* lines 209-212 with lines 54-58: the callback is called on a match and runs up to
\* its first await, the format call of line 58 then being in flight
StartTask(s, m) ==
  [start |-> m.start, end |-> m.end, whole |-> SubSeq(s, m.start, m.end),
   meta |-> m.meta, body |-> m.snippet, snippet |-> Snippet(m.meta, m.snippet),
   stage |-> "formatTS", formattedTS |-> <<>>, js |-> <<>>, formattedJS |-> <<>>,
   value |-> <<>>]

\* a combinator that is fulfilled with the first promise that is
AnyFulfilled(ts) == ts = <<>> \/ \E i \in 1..Len(ts) : ts[i].stage = "fulfilled"

\* Promise.all(promises) is fulfilled when every promise is
AllFulfilled(ts) == \A i \in 1..Len(ts) : ts[i].stage = "fulfilled"

\* Promise.all(promises) is rejected when one promise is
SomeRejected(ts) == \E i \in 1..Len(ts) : ts[i].stage = "rejected"

\* the array Promise.all hands to then: the values, in the order of the promises
RECURSIVE Replacements(_)
Replacements(ts) ==
  IF ts = <<>> THEN <<>>
  ELSE (IF Head(ts).stage = "fulfilled" THEN <<Head(ts).value>> ELSE <<>>)
       \o Replacements(Tail(ts))

\* replacements.pop()! in the place of shift
Pop(q) ==
  IF q = <<>> THEN [value |-> <<"undefined">>, rest |-> <<>>]
  ELSE [value |-> q[Len(q)], rest |-> SubSeq(q, 1, Len(q) - 1)]

\* replacements.shift()! on a queue q: the value (undefined, printed by replace, when
\* the queue is empty) and the queue left
Shift(q) ==
  IF q = <<>> THEN [value |-> <<"undefined">>, rest |-> <<>>]
  ELSE [value |-> Head(q), rest |-> Tail(q)]

\* line 213: str.replace(match, () => replacements.shift()!) from index i on; the
\* text, the queue left and the number of matches replaced
RECURSIVE ReplaceFrom(_, _, _)
ReplaceFrom(s, i, q) ==
  LET m == NextMatch(s, i)
  IN IF m.start = 0
     THEN [text |-> SubSeq(s, i, Len(s)), queue |-> q, count |-> 0]
     ELSE LET sh == Shift(q)
              r == ReplaceFrom(s, m.end + 1, sh.rest)
          IN [text |-> SubSeq(s, i, m.start - 1) \o sh.value \o r.text,
              queue |-> r.queue, count |-> r.count + 1]

(* ------------------------------------------------------------------ *)
(* transform, lines 47-50 and 85-98                                     *)
(* ------------------------------------------------------------------ *)
Title == "# useFoo"
\* the headings of level 2 to 6 of the alphabet
Headings == {"## Usage", "## Components", "## Demo", "## Source"}

\* String.prototype.indexOf / search, as 0-based token offsets, -1 when not found
FrontmatterEnds(s) ==
  First({i \in 1..(Len(s) - 2) : s[i] = "---" /\ s[i + 1] = NL /\ s[i + 2] = NL}) - 1

FirstHeader(s) ==
  First({i \in 1..(Len(s) - 1) : s[i] = NL /\ s[i + 1] \in Headings}) - 1

\* lines 48-50; the 4 characters of '---\n' are the two tokens "---" and "\n"
SliceIndex(s) ==
  LET frontmatterEnds == FrontmatterEnds(s)
      firstHeader == FirstHeader(s)
  IN IF firstHeader < 0
     THEN (IF frontmatterEnds < 0 THEN 0 ELSE frontmatterEnds + 2)
     ELSE firstHeader

\* String.prototype.slice(0, n) and slice(n)
SliceTo(s, n) == SubSeq(s, 1, IF n > Len(s) THEN Len(s) ELSE n)
SliceFrom(s, n) == SubSeq(s, (IF n > Len(s) THEN Len(s) ELSE n) + 1, Len(s))

\* line 90
InsertHeader(s, sliceIndex, header) ==
  IF header = <<>> THEN s
  ELSE SliceTo(s, sliceIndex) \o header \o SliceFrom(s, sliceIndex)

\* lines 158-192 of getFunctionMarkdown
DemoSection(demoPath) ==
  IF demoPath = "" THEN <<>>
  ELSE IF demoPath = "demo.client.vue"
    THEN <<NL, "<script setup>defineAsyncComponent</script>", NL, NL, "## Demo", NL,
           NL, "<DemoContainer><ClientOnly/></DemoContainer>", NL>>
  ELSE <<NL, "<script setup>import Demo</script>", NL, NL, "## Demo", NL,
         NL, "<DemoContainer><Demo/></DemoContainer>", NL>>

\* lines 193-195
PackageNote(addon) == IF addon THEN <<"Available in the add-on.", NL>> ELSE <<>>

\* line 199
Header(demoPath, addon) == DemoSection(demoPath) \o PackageNote(addon)

\* line 197, the sections as single tokens but for the heading a pattern can meet
Footer ==
  <<"<typings>", NL, NL, "## Source", NL, NL, "<links>", NL, NL,
    "<contributors and changelog>", NL>>

\* replacer(code, footer, 'FOOTER', 'tail') of scripts/utils on a document that holds
\* no FOOTER markers: the marked footer goes to the tail
replacer(s, value) ==
  s \o <<NL, NL, "<!--FOOTER_STARTS-->", NL>> \o value \o <<NL, "<!--FOOTER_ENDS-->">>

\* String.prototype.replace with a pattern that is not global and matches one token:
\* the token at i, where the pattern first matches, replaced by the text r
ReplaceAt(s, i, r) == SubSeq(s, 1, i - 1) \o r \o SubSeq(s, i + 1, Len(s))

\* line 93: /(# \w+)\n/ matches in a heading of one word that ends its line, whatever
\* its level
FunctionInfo(s) ==
  LET i == First({k \in 1..(Len(s) - 1) :
                         s[k] \in Headings \cup {Title} /\ s[k + 1] = NL})
  IN IF i = 0 THEN s ELSE ReplaceAt(s, i, <<s[i], NL, NL, "<FunctionInfo/>">>)

\* line 94
LearnMoreComponents(s) ==
  LET i == First({k \in 1..Len(s) : s[k] = "## Components"})
  IN IF i = 0 THEN s
     ELSE ReplaceAt(s, i, <<s[i], NL, "<LearnMoreComponents />", NL, NL>>)

\* line 95
LearnMoreDirectives(s) ==
  LET i == First({k \in 1..Len(s) : s[k] = "## Directives"})
  IN IF i = 0 THEN s
     ELSE ReplaceAt(s, i, <<s[i], NL, "<LearnMoreDirectives />", NL, NL>>)

\* lines 87-95
Assembled(s, sliceIndex, header, hasTypes) ==
  LearnMoreDirectives(LearnMoreComponents(FunctionInfo(
    InsertHeader(IF hasTypes THEN replacer(s, Footer) ELSE s, sliceIndex, header))))

(* ------------------------------------------------------------------ *)
(* The documents transform is given                                    *)
(* ------------------------------------------------------------------ *)
\* const a: number = 1
TypedStatement == <<"const a", ": number", " = 1">>

\* the fenced blocks of the documents: the annotation after "ts" and the body
Blocks ==
  { [meta |-> <<>>, body |-> TypedStatement],
    [meta |-> <<>>, body |-> <<"const a", " = 1", ";", NL, NL, "const a", " = 1">>],
    [meta |-> <<"twoslash">>, body |-> TypedStatement \o <<NL, Annotation>>],
    [meta |-> <<"Twoslash">>, body |-> <<"const a", " = 1", NL, Annotation>>],
    [meta |-> <<"{1}">>, body |-> TypedStatement],
    [meta |-> <<>>, body |-> <<"const a", SyntaxError>>] }

\* the opening line, the body and the closing line of a block
BlockText(b) ==
  <<Fence, "ts">> \o (IF b.meta = <<>> THEN <<>> ELSE <<SP>> \o b.meta)
    \o <<NL>> \o b.body \o <<NL, Fence>>

\* what a document starts with
Leads == { <<>>, <<NL>>, <<"---", NL, NL>>, <<Title, NL, NL, "## Components", NL>> }

\* what follows a block; nothing follows the block that ends a document
Seps == { <<>>, <<NL>>, <<NL, "## Usage", NL>> }

Documents ==
  UNION { { lead \o Flatten([i \in 1..n |-> BlockText(bs[i]) \o ss[i]]) :
              lead \in Leads, bs \in [1..n -> Blocks],
              ss \in {f \in [1..n -> Seps] : \A i \in 1..(n - 1) : f[i] # <<>>} } :
          n \in 0..MaxBlocks }

(* ------------------------------------------------------------------ *)
(* State                                                               *)
(* ------------------------------------------------------------------ *)
VARIABLES
  pc,            \* where transform is: "start", "awaitAll" (line 53), "awaitMarkdown"
                 \* (line 85), "done" and "returned" (line 98), "rejected"
  pass,          \* how many times the document went through the block rewriting
  code,          \* transform's code
  sliceIndex,    \* line 50
  str,           \* replaceAsync's str
  tasks,         \* replaceAsync's promises, with the state of each callback
  replacements,  \* line 213: the queue as the substitution pass leaves it
  replaced,      \* line 213: the number of matches the substitution pass replaced
  rewritten,     \* line 53: the value replaceAsync resolved with
  header,        \* line 85
  spliced,       \* code as line 90 leaves it
  prev           \* the tasks of the pass before this one

vars ==
  <<pc, pass, code, sliceIndex, str, tasks, replacements, replaced, rewritten,
    header, spliced, prev>>

Init ==
  /\ code \in Documents
  /\ pc = "start"
  /\ pass = 1
  /\ sliceIndex = 0
  /\ str = <<>>
  /\ tasks = <<>>
  /\ replacements = <<>>
  /\ replaced = 0
  /\ rewritten = <<>>
  /\ header = <<>>
  /\ spliced = <<>>
  /\ prev = <<>>

(* ------------------------------------------------------------------ *)
(* Actions                                                             *)
(* ------------------------------------------------------------------ *)
\* lines 47 and 98: the document is not a function's index.md.  (The alphabet holds
\* no function name in backticks and no vueuse.org link, so that lines 31-41 leave
\* every document as it is.)
NotFunctionPage ==
  /\ pc = "start"
  /\ pass = 1
  /\ pc' = "returned"
  /\ UNCHANGED <<pass, code, sliceIndex, str, tasks, replacements, replaced,
                 rewritten, header, spliced, prev>>

\* lines 48-53 and 207-213 up to the await: the slice index is taken, every match of
\* the pattern in code starts its callback, and transform waits for them all
Collect ==
  /\ pc = "start"
  /\ sliceIndex' = SliceIndex(code)
  /\ str' = code
  /\ LET ms == MatchAll(code, 1)
     IN tasks' = [i \in 1..Len(ms) |-> StartTask(code, ms[i])]
  /\ pc' = "awaitAll"
  /\ UNCHANGED <<pass, code, replacements, replaced, rewritten, header, spliced, prev>>

\* lines 58-62: the format call of line 58 settles; the callback rejects with it, or
\* transpiles and calls format again
FormatTSSettles(i) ==
  /\ pc \in {"awaitAll", "rejected"}
  /\ i \in 1..Len(tasks)
  /\ tasks[i].stage = "formatTS"
  /\ LET r == format(FormatTSInput(tasks[i].snippet))
         formattedTS == Trim(r.text)
     IN tasks' = [tasks EXCEPT ![i] =
          IF r.ok
          THEN [@ EXCEPT !.stage = "formatJS", !.formattedTS = formattedTS,
                         !.js = transpileModule(formattedTS)]
          ELSE [@ EXCEPT !.stage = "rejected"]]
  /\ UNCHANGED <<pc, pass, code, sliceIndex, str, replacements, replaced, rewritten,
                 header, spliced, prev>>

\* lines 62-82: the format call of line 62 settles; the callback rejects with it, or
\* returns the matched text or the toggle
FormatJSSettles(i) ==
  /\ pc \in {"awaitAll", "rejected"}
  /\ i \in 1..Len(tasks)
  /\ tasks[i].stage = "formatJS"
  /\ LET r == format(tasks[i].js)
         formattedJS == Trim(r.text)
         t == tasks[i]
     IN tasks' = [tasks EXCEPT ![i] =
          IF r.ok
          THEN [@ EXCEPT !.stage = "fulfilled", !.formattedJS = formattedJS,
                         !.value = Replacement(t.whole, t.meta, t.snippet,
                                               t.formattedTS, formattedJS)]
          ELSE [@ EXCEPT !.stage = "rejected"]]
  /\ UNCHANGED <<pc, pass, code, sliceIndex, str, replacements, replaced, rewritten,
                 header, spliced, prev>>

\* lines 213 and 53: Promise.all rejects with the first callback that does, nothing
\* catches it, and the promise transform returned is rejected
Rejects ==
  /\ pc = "awaitAll"
  /\ SomeRejected(tasks)
  /\ pc' = "rejected"
  /\ UNCHANGED <<pass, code, sliceIndex, str, tasks, replacements, replaced,
                 rewritten, header, spliced, prev>>

\* lines 213, 53 and 85: Promise.all is fulfilled, the substitution pass runs over
\* str, code takes its result and transform waits for getFunctionMarkdown
Substitute ==
  /\ pc = "awaitAll"
  /\ AllFulfilled(tasks)
  /\ LET r == ReplaceFrom(str, 1, Replacements(tasks))
     IN /\ code' = r.text
        /\ rewritten' = r.text
        /\ replacements' = r.queue
        /\ replaced' = r.count
  /\ pc' = "awaitMarkdown"
  /\ UNCHANGED <<pass, sliceIndex, str, tasks, header, spliced, prev>>

\* lines 85-98: getFunctionMarkdown resolves, the footer and the header are put in,
\* the headings are decorated and transform returns
Assemble(demoPath, addon, hasTypes) ==
  /\ pc = "awaitMarkdown"
  /\ header' = Header(demoPath, addon)
  /\ spliced' = InsertHeader(IF hasTypes THEN replacer(code, Footer) ELSE code,
                             sliceIndex, header')
  /\ code' = Assembled(code, sliceIndex, header', hasTypes)
  /\ pc' = "done"
  /\ UNCHANGED <<pass, sliceIndex, str, tasks, replacements, replaced, rewritten, prev>>

\* the block rewriting is run again, on the text replaceAsync resolved with
Rescan ==
  /\ pc = "awaitMarkdown"
  /\ pass < MaxPass
  /\ pass' = pass + 1
  /\ code' = rewritten
  /\ prev' = tasks
  /\ pc' = "start"
  /\ sliceIndex' = 0
  /\ str' = <<>>
  /\ tasks' = <<>>
  /\ replacements' = <<>>
  /\ replaced' = 0
  /\ rewritten' = <<>>
  /\ UNCHANGED <<header, spliced>>

\* one call of transform
Next ==
  \/ NotFunctionPage
  \/ Collect
  \/ \E i \in 1..Len(tasks) : FormatTSSettles(i)
  \/ \E i \in 1..Len(tasks) : FormatJSSettles(i)
  \/ Rejects
  \/ Substitute
  \/ \E demoPath \in {"", "demo.vue", "demo.client.vue"}, addon \in BOOLEAN,
        hasTypes \in BOOLEAN : Assemble(demoPath, addon, hasTypes)

\* the block rewriting of lines 53-83 alone, run on a document and then on its own
\* output
NextRewriter ==
  \/ Collect
  \/ \E i \in 1..Len(tasks) : FormatTSSettles(i)
  \/ \E i \in 1..Len(tasks) : FormatJSSettles(i)
  \/ Rejects
  \/ Substitute
  \/ Rescan

Spec == Init /\ [][Next]_vars

SpecRewriter == Init /\ [][NextRewriter]_vars

(* ------------------------------------------------------------------ *)
(* Vocabulary of the properties                                        *)
(* ------------------------------------------------------------------ *)
\* replaceAsync has resolved
Rewritten == pc \in {"awaitMarkdown", "done"}

Fulfilled(t) == t.stage = "fulfilled"

\* the value a callback returned is the toggle structure, not the matched text
IsToggle(v) == Len(v) > 1 /\ v[2] = "<CodeToggle>"

\* where the replacement of the i-th match of a pass starts in the text the pass
\* produced: its start in the input, moved by what the earlier replacements added
RECURSIVE Growth(_, _)
Growth(ts, i) ==
  IF i <= 1 THEN 0
  ELSE Growth(ts, i - 1) + Len(ts[i - 1].value) - Len(ts[i - 1].whole)

OutStart(ts, i) == ts[i].start + Growth(ts, i)

\* the first fence of a toggle opens its TS pane; the match of the pane starts at the
\* newline before it
PaneStart(ts, i) ==
  LET v == ts[i].value
      k == CHOOSE k \in 1..Len(v) : v[k] = Fence /\ \A j \in 1..(k - 1) : v[j] # Fence
  IN OutStart(ts, i) + k - 2

\* the second fence of a toggle closes its TS pane; the pane ends at the newline
\* after it
PaneEnd(ts, i) ==
  LET v == ts[i].value
      k == CHOOSE k \in 1..Len(v) :
             v[k] = Fence /\ Cardinality({j \in 1..(k - 1) : v[j] = Fence}) = 1
  IN OutStart(ts, i) + k

\* the fenced TypeScript blocks of a text, read line by line: an opening line of the
\* fence, ts and an optional annotation, a body of one or more lines, a closing line
\* of the fence alone
LineStart(s, i) == i = 1 \/ s[i - 1] = NL

CloseLine(s, from) ==
  First({k \in from..(Len(s) - 1) :
           s[k] = NL /\ s[k + 1] = Fence /\ (k + 2 > Len(s) \/ s[k + 2] = NL)})

BlockAt(s, i) ==
  IF ~(LineStart(s, i) /\ i + 2 <= Len(s) /\ s[i] = Fence /\ s[i + 1] = "ts")
  THEN [start |-> 0, end |-> 0, meta |-> <<>>, body |-> <<>>]
  ELSE LET e == NextNewline(s, i + 2)
           c == IF e <= Len(s) /\ (e = i + 2 \/ (s[i + 2] = SP /\ e > i + 3))
                THEN CloseLine(s, e + 2) ELSE 0
       IN IF c = 0 THEN [start |-> 0, end |-> 0, meta |-> <<>>, body |-> <<>>]
          ELSE [start |-> i, end |-> c + 1, meta |-> SubSeq(s, i + 2, e - 1),
                body |-> SubSeq(s, e + 1, c - 1)]

RECURSIVE FencedBlocks(_, _)
FencedBlocks(s, i) ==
  LET k == First({j \in i..Len(s) : BlockAt(s, j).start # 0})
  IN IF k = 0 THEN <<>>
     ELSE <<BlockAt(s, k)>> \o FencedBlocks(s, BlockAt(s, k).end + 1)

\* the text starts and ends with a newline and holds nothing a parser rejects
WellFormed(s) ==
  /\ s # <<>> /\ s[1] = NL /\ s[Len(s)] = NL
  /\ \A i \in 1..Len(s) : s[i] # SyntaxError

(* ------------------------------------------------------------------ *)
(* Properties                                                          *)
(* ------------------------------------------------------------------ *)

\* C1 (fail-open): when the format or transpile step of a matched block fails,
\* transform is not rejected, and once the document is rewritten the block's matched
\* text stands in the output as it stood in the input.
FailOpen ==
  \A i \in 1..Len(tasks) :
    tasks[i].stage = "rejected" =>
      /\ pc # "rejected"
      /\ Rewritten =>
           SubSeq(rewritten, OutStart(tasks, i),
                  OutStart(tasks, i) + Len(tasks[i].whole) - 1) = tasks[i].whole

\* C2 (sibling isolation): with two or more matched blocks, the failure of one
\* block's pipeline does not fail the document, and every block whose own body is
\* valid gets the result of its own content.
SiblingIsolation ==
  \A i, j \in 1..Len(tasks) :
    (/\ i # j
     /\ tasks[i].stage = "rejected"
     /\ \A k \in 1..Len(tasks[j].body) : tasks[j].body[k] # SyntaxError) =>
      /\ pc # "rejected"
      /\ Fulfilled(tasks[j]) =>
           tasks[j].value = Replacement(tasks[j].whole, tasks[j].meta, tasks[j].snippet,
                                        tasks[j].formattedTS, tasks[j].formattedJS)

\* C3 (order preservation): once a document is rewritten, there is one replacement
\* for each of its fenced TypeScript blocks, wherever the block sits, the i-th one
\* computed from the i-th block's annotation and body and standing i-th in the
\* output.  Stated for the documents that start and end with a newline and whose
\* blocks are all valid TypeScript, so that no block is at an end of the text and no
\* pipeline fails.
OrderPreservation ==
  (Rewritten /\ pass = 1 /\ WellFormed(str)) =>
    LET blocks == FencedBlocks(str, 1)
    IN /\ Len(tasks) = Len(blocks)
       /\ replaced = Len(blocks)
       /\ \A i \in 1..Len(tasks) :
            i <= Len(blocks) =>
              /\ tasks[i].meta = blocks[i].meta
              /\ tasks[i].body = blocks[i].body
              /\ SubSeq(rewritten, OutStart(tasks, i),
                        OutStart(tasks, i) + Len(tasks[i].value) - 1) = tasks[i].value

TSPaneShowsOriginal ==
  \A i \in 1..Len(tasks) :
    (/\ Fulfilled(tasks[i])
     /\ IsTwoslash(tasks[i].meta)
     /\ \E k \in 1..Len(tasks[i].body) : tasks[i].body[k] = Annotation
     /\ IsToggle(tasks[i].value)) =>
      tasks[i].value = CodeToggle(tasks[i].meta, tasks[i].body, tasks[i].formattedJS)

InEnd(i) == IF i = 0 THEN 0 ELSE tasks[i].end
InNext(i) == IF i = Len(tasks) THEN Len(str) + 1 ELSE tasks[i + 1].start
OutEnd(i) == IF i = 0 THEN 0 ELSE OutStart(tasks, i) + Len(tasks[i].value) - 1
OutNext(i) == IF i = Len(tasks) THEN Len(rewritten) + 1 ELSE OutStart(tasks, i + 1)

\* C7 (frame): in the rewritten text, the text between the matches of the input
\* stands unchanged and in order between their replacements, with nothing else
\* added; the replacement of a block decided Unchanged is its matched text, and the
\* replacement of a block decided Diverged starts and ends with the newline the
\* match took before and after the fence.
OnlyMatchesRewritten ==
  Rewritten =>
    /\ \A i \in 0..Len(tasks) :
         /\ OutNext(i) - OutEnd(i) = InNext(i) - InEnd(i)
         /\ SubSeq(rewritten, OutEnd(i) + 1, OutNext(i) - 1)
              = SubSeq(str, InEnd(i) + 1, InNext(i) - 1)
    /\ \A i \in 1..Len(tasks) :
         /\ SubSeq(rewritten, OutStart(tasks, i), OutEnd(i)) = tasks[i].value
         /\ tasks[i].formattedJS = tasks[i].formattedTS =>
              tasks[i].value = SubSeq(str, tasks[i].start, tasks[i].end)
         /\ tasks[i].formattedJS # tasks[i].formattedTS =>
              /\ IsToggle(tasks[i].value)
              /\ Head(tasks[i].value) = str[tasks[i].start]
              /\ tasks[i].value[Len(tasks[i].value)] = str[tasks[i].end]
              /\ str[tasks[i].start] = NL /\ str[tasks[i].end] = NL

\* C7 witness: a document with text before its first match was rewritten, one of
\* its blocks replaced by a toggle and a later one returned as matched
RewrittenAroundText ==
  /\ Rewritten
  /\ Len(tasks) > 1
  /\ tasks[1].start > 1
  /\ IsToggle(tasks[1].value)
  /\ tasks[2].value = tasks[2].whole
  /\ tasks[2].start > tasks[1].end + 1

\* C8, as claimed: a block whose body is  const a: number = 1  is decided Unchanged,
\* its replacement being the matched text.
Scenario1Unchanged ==
  \A i \in 1..Len(tasks) :
    (Fulfilled(tasks[i]) /\ tasks[i].body = TypedStatement) =>
      tasks[i].value = tasks[i].whole

\* C8, amended: a block whose body is  const a: number = 1  is decided Diverged: the
\* derived JavaScript is  const a = 1, the annotation erased, and the block is
\* replaced by a toggle whose TS pane shows the body and whose JS pane shows
\* const a = 1.
Scenario1Diverged ==
  \A i \in 1..Len(tasks) :
    (Fulfilled(tasks[i]) /\ tasks[i].body = TypedStatement) =>
      /\ tasks[i].formattedTS = TypedStatement
      /\ tasks[i].formattedJS = <<"const a", " = 1">>
      /\ tasks[i].value = CodeToggle(tasks[i].meta, TypedStatement, <<"const a", " = 1">>)

\* C8 witness: the callback returned for a block with no annotation whose body is
\* const a: number = 1
Scenario1Settled ==
  \E i \in 1..Len(tasks) :
    /\ Fulfilled(tasks[i])
    /\ tasks[i].meta = <<>>
    /\ tasks[i].body = TypedStatement

\* C9 (two phases): while transform waits for the callbacks, every match of the
\* pattern in the original text has its callback started and nothing is spliced;
\* the substitution pass has run only with every callback fulfilled, it replaced as
\* many matches as callbacks were started, each by a computed replacement, and it
\* left the queue of replacements empty.
TwoPhaseSubstitution ==
  (pc \in {"awaitAll", "rejected", "awaitMarkdown", "done"}) =>
    LET matches == Len(MatchAll(str, 1))
    IN /\ Len(tasks) = matches
       /\ pc \in {"awaitAll", "rejected"} =>
            /\ code = str
            /\ rewritten = <<>>
       /\ Rewritten =>
            /\ \A i \in 1..Len(tasks) : Fulfilled(tasks[i])
            /\ replaced = matches
            /\ replacements = <<>>
            /\ \A k \in 1..Len(rewritten) : rewritten[k] # "undefined"

\* C9 witness: the substitution pass has run over a document with two matches
SubstitutedTwo == Rewritten /\ Len(tasks) > 1 /\ replaced > 1

\* C10: when a header is inserted, it stands right before the first heading of
\* level 2 to 6 of the rewritten document (right after the frontmatter when there
\* is no such heading, at the start when there is neither), the rewritten text
\* before that point being untouched.
HeaderBeforeFirstHeading ==
  (pc = "done" /\ header # <<>>) =>
    LET k == SliceIndex(rewritten)
    IN /\ SliceTo(spliced, k) = SliceTo(rewritten, k)
       /\ SubSeq(spliced, k + 1, k + Len(header)) = header

====
